---- MODULE Spec2Model ----
(***************************************************************************)
(* A model of the music-mood pipeline: the acquisition batch               *)
(* (etl/youtube.py), feature extraction (etl/extract.py), the transformer  *)
(* (etl/transform.py) and the two models (analysis/*.py).                  *)
(*                                                                         *)
(* Strings are sequences of one-character strings, so that                 *)
(* sanitize_filename is computed character by character.  A numeric cell   *)
(* of a table is <<v>> when present and <<>> (None in memory, an empty CSV *)
(* field, NaN after read_csv) when missing.                                *)
(***************************************************************************)
EXTENDS Integers, Sequences, FiniteSets, TLC

VARIABLES
    library,      \* spotify.get_playlist_tracks(): the playlist's rows, in order
    assets,       \* the paths that exist under data/audio
    pc,           \* where the acquisition/extraction driver stands
    df,           \* the in-memory track table of the running batch
    idx,          \* the row the running loop is at (1-based)
    youtubeCsv,   \* data/extracted/youtube_tracks.csv: [exists, rows]
    featuresCsv,  \* data/extracted/tracks_features.csv: [exists, rows]
    startCsv,     \* history: youtube_tracks.csv as it was when this run started
    calls,        \* history: one record per download_track_from_youtube call of this run
    hist,         \* history: one record per batch run that ended
    extracted,    \* history: what the extraction loop did with each row it has been through
    stage,        \* the step of main() that runs next, from STEP C.1 on
    transformedCsv, \* data/processed/transformed_data.csv: [exists, cols, rows]
    labelsCsv,    \* data/provided/mood_relation.csv: [exists, cols, rows]
    predictedCsv, \* data/outputs/predicted_moods.csv: [exists, cols, rows]
    clusteredCsv, \* data/outputs/clustered_tracks.csv: [exists, cols, rows]
    tidy,         \* history: the table inside clean_and_tidy after each of its steps
    fits,         \* history: the models fitted, with the table each was fitted on
    outcomes,     \* history: how each stage that ran ended, in order
    report        \* what STEP E printed: the two evaluations

acqVars ==
    <<library, assets, pc, df, idx, youtubeCsv, startCsv, calls, hist, extracted>>

anaVars ==
    <<stage, transformedCsv, labelsCsv, predictedCsv, clusteredCsv, tidy, fits, outcomes, report>>

vars == <<acqVars, featuresCsv, anaVars>>

\* A numeric cell: None when missing, else the rational <<n, d>> (d > 0, in
\* lowest terms).
None == <<>>
\* A CSV file: whether it exists, its header and its rows (records over the header).
NoFile == [exists |-> FALSE, cols |-> {}, rows |-> <<>>]
File(cols, rows) == [exists |-> TRUE, cols |-> cols, rows |-> rows]
\* STEP E has printed nothing yet.
NoReport == [supervised |-> "not run", unsupervised |-> "not run", table |-> <<>>]

\* ------------------------------------------------------------------ bounds
MaxTracks == 2
MaxRuns == 2
MaxRows == 2
MaxLabels == 2

\* ------------------------------------------------------------ etl/youtube.py

\* The characters of the class [\\/*?:"<>|] that sanitize_filename removes.
Forbidden == {"\\", "/", "*", "?", ":", "\"", "<", ">", "|"}

\* What str.strip() removes at both ends.
Whitespace == {" ", "\t", "\n"}

RECURSIVE LStrip(_)
LStrip(s) == IF s # <<>> /\ Head(s) \in Whitespace THEN LStrip(Tail(s)) ELSE s

RECURSIVE RStrip(_)
RStrip(s) ==
    IF s # <<>> /\ s[Len(s)] \in Whitespace THEN RStrip(SubSeq(s, 1, Len(s) - 1)) ELSE s

StripKeepsCase(s) == RStrip(LStrip(s))

RemoveForbidden(s) == SelectSeq(s, LAMBDA c : c \notin Forbidden)

sanitize_filename(name) == StripKeepsCase(RemoveForbidden(name))

\* f"{row['name']} - {row['artists']}"
NameDashArtists(name, artists) == name \o <<" ", "-", " ">> \o artists

\* The playlists the catalog service may return: names that differ only in a
\* removed character or in outer whitespace, and one that differs otherwise.
TrackNames == {<<"a">>, <<"a", "?">>, <<"b">>}
ArtistNames == {<<"x">>}
TrackPool == {[name |-> n, artists |-> a] : n \in TrackNames, a \in ArtistNames}

RECURSIVE SeqsUpTo(_, _)
SeqsUpTo(S, n) ==
    IF n = 0 THEN {<<>>}
    ELSE LET shorter == SeqsUpTo(S, n - 1)
         IN  shorter \cup {Append(s, x) : s \in {t \in shorter : Len(t) = n - 1}, x \in S}

\* get_tracks_from_user_library: the playlist rows plus the file_name column.
get_tracks_from_user_library(rows) ==
    [i \in 1..Len(rows) |->
        [name      |-> rows[i].name,
         artists   |-> rows[i].artists,
         file_name |-> sanitize_filename(NameDashArtists(rows[i].name, rows[i].artists))]]

\* os.path.join(output_dir, f"{filename}.mp3")
file_path(filename) == <<"data/audio", "/">> \o filename \o <<".mp3">>

\* The value returned when the asset already exists (the early return).
SkipReturnsTrue == TRUE
SkipReturn == FALSE

\* What the except clause makes of a yt-dlp exception: it is swallowed and the
\* call returns False.
DownloadErrorPropagates == [ret |-> FALSE, raised |-> TRUE]
OnDownloadError == [ret |-> FALSE, raised |-> FALSE]

\* Whether the call goes on to yt-dlp: only when the file does not exist.
FetchAlways(filename, store) == TRUE
NeedsFetch(filename, store) == file_path(filename) \notin store

\* download_track_from_youtube(filename, query): `store` is the asset directory
\* before the call and `ydl` what yt-dlp does if it is invoked ("ok": the mp3 is
\* written; "raise": it raises and writes no mp3).
download_track_from_youtube(filename, store, ydl) ==
    IF ~NeedsFetch(filename, store)
    THEN [ret |-> SkipReturn, raised |-> FALSE, invoked |-> FALSE, store |-> store]
    ELSE IF ydl = "ok"
    THEN [ret |-> TRUE, raised |-> FALSE, invoked |-> TRUE,
          store |-> store \cup {file_path(filename)}]
    ELSE [ret |-> OnDownloadError.ret, raised |-> OnDownloadError.raised,
          invoked |-> TRUE, store |-> store]

\* df['downloaded'] = False on the freshly fetched track table.
InitialDownloaded(tracks) == [i \in 1..Len(tracks) |-> FALSE]

WithDownloaded(tracks, flags) ==
    [i \in 1..Len(tracks) |->
        [name |-> tracks[i].name, artists |-> tracks[i].artists,
         file_name |-> tracks[i].file_name, downloaded |-> flags[i]]]

TrackCols == {"name", "artists", "file_name"}

Flags(rows) == [i \in 1..Len(rows) |-> rows[i].downloaded]

\* download_tracks_from_user_library, up to the loop: the track table is fetched
\* anew and every row starts with downloaded = False.
StartRun ==
    /\ pc \in {"idle", "returned", "extracted"}
    /\ Len(hist) < MaxRuns
    /\ df' = WithDownloaded(get_tracks_from_user_library(library),
                            InitialDownloaded(get_tracks_from_user_library(library)))
    /\ idx' = 1
    /\ pc' = "downloading"
    /\ startCsv' = youtubeCsv
    /\ calls' = <<>>
    /\ extracted' = <<>>
    /\ UNCHANGED <<library, assets, youtubeCsv, featuresCsv, hist>>
    /\ UNCHANGED anaVars

\* One iteration of the loop: the call, df.at[idx, 'downloaded'] = success, and
\* the write of the whole table to youtube_tracks.csv.
DownloadTrack ==
    /\ pc = "downloading"
    /\ idx <= Len(df)
    /\ \E ydl \in {"ok", "raise"} :
         LET r == download_track_from_youtube(df[idx].file_name, assets, ydl)
             call == [existed |-> file_path(df[idx].file_name) \in assets,
                      invoked |-> r.invoked, ret |-> r.ret]
         IN  /\ assets' = r.store
             /\ calls' = Append(calls, call)
             /\ IF r.raised
                THEN /\ pc' = "aborted"
                     /\ UNCHANGED <<df, idx, youtubeCsv>>
                ELSE /\ df' = [df EXCEPT ![idx].downloaded = r.ret]
                     /\ youtubeCsv' = File(TrackCols \cup {"downloaded"}, df')
                     /\ idx' = idx + 1
                     /\ pc' = pc
    /\ UNCHANGED <<library, featuresCsv, startCsv, hist, extracted>>
    /\ UNCHANGED anaVars

\* The loop is over: the batch returns df.
FinishRun ==
    /\ pc = "downloading"
    /\ idx > Len(df)
    /\ pc' = "returned"
    /\ hist' = Append(hist, [status |-> "returned", result |-> Flags(df), calls |-> calls,
                           files |-> assets])
    /\ UNCHANGED <<library, assets, df, idx, youtubeCsv, featuresCsv, startCsv, calls, extracted>>
    /\ UNCHANGED anaVars

\* The process dies inside the loop: memory is lost, the files stay.
Crash ==
    /\ pc = "downloading"
    /\ pc' = "idle"
    /\ df' = <<>>
    /\ idx' = 1
    /\ hist' = Append(hist, [status |-> "crashed", result |-> Flags(df), calls |-> calls,
                           files |-> assets])
    /\ UNCHANGED <<library, assets, youtubeCsv, featuresCsv, startCsv, calls, extracted>>
    /\ UNCHANGED anaVars

\* ------------------------------------------------------------ etl/extract.py

FeatureCols ==
    {"tempo", "mfcc_mean", "chroma_mean", "zcr_mean", "spectral_centroid_mean", "rms_mean"}

\* What librosa computes from a readable asset: a function of the asset alone.
AudioFeature(path, col) == <<Len(path) + (IF col = "tempo" THEN 100 ELSE 0), 1>>

\* The except clause of extract_audio_features: every field None.
ExtractErrorPropagates == [features |-> [c \in FeatureCols |-> None], raised |-> TRUE]
OnExtractError == [features |-> [c \in FeatureCols |-> None], raised |-> FALSE]

\* extract_audio_features(file_path): `librosa` is what the library does with the
\* file ("ok", or "raise" on a corrupt or unreadable one).
extract_audio_features(path, librosa) ==
    IF librosa = "ok"
    THEN [features |-> [c \in FeatureCols |-> AudioFeature(path, c)], raised |-> FALSE]
    ELSE OnExtractError

\* append_audio_features_to_df, up to the loop: the missing feature columns are
\* added, holding None (main() passes the table the batch returned).
StartExtract ==
    /\ pc = "returned"
    /\ df' = [i \in 1..Len(df) |-> df[i] @@ [c \in FeatureCols |-> None]]
    /\ idx' = 1
    /\ pc' = "extracting"
    /\ extracted' = <<>>
    /\ UNCHANGED <<library, assets, youtubeCsv, featuresCsv, startCsv, calls, hist>>
    /\ UNCHANGED anaVars

\* One iteration: a row whose file does not exist is passed over; otherwise the
\* row's six fields are set from what extract_audio_features returned.
ExtractRow ==
    /\ pc = "extracting"
    /\ idx <= Len(df)
    /\ IF file_path(df[idx].file_name) \notin assets
       THEN /\ UNCHANGED df
            /\ pc' = pc
            /\ idx' = idx + 1
            /\ extracted' = Append(extracted, "no file")
       ELSE \E librosa \in {"ok", "raise"} :
              LET r == extract_audio_features(file_path(df[idx].file_name), librosa)
              IN  IF r.raised
                  THEN /\ pc' = "aborted"
                       /\ extracted' = Append(extracted, librosa)
                       /\ UNCHANGED <<df, idx>>
                  ELSE /\ df' = [df EXCEPT ![idx] = r.features @@ df[idx]]
                       /\ pc' = pc
                       /\ idx' = idx + 1
                       /\ extracted' = Append(extracted, librosa)
    /\ UNCHANGED <<library, assets, youtubeCsv, featuresCsv, startCsv, calls, hist>>
    /\ UNCHANGED anaVars

\* After the loop: df.to_csv(output_path).
ExtractSave ==
    /\ pc = "extracting"
    /\ idx > Len(df)
    /\ featuresCsv' = File(TrackCols \cup {"downloaded"} \cup FeatureCols, df)
    /\ pc' = "extracted"
    /\ UNCHANGED <<library, assets, df, idx, youtubeCsv, startCsv, calls, hist, extracted>>
    /\ UNCHANGED anaVars

\* ---------------------------------------------------------- etl/transform.py

RECURSIVE GCD(_, _)
GCD(a, b) == IF b = 0 THEN a ELSE GCD(b, a % b)

Abs(x) == IF x < 0 THEN -x ELSE x

\* The rational n/d (d > 0) in lowest terms.
Rat(n, d) == LET g == GCD(Abs(n), d) IN <<n \div g, d \div g>>

RatAdd(a, b) ==
    LET lcm == (a[2] \div GCD(a[2], b[2])) * b[2]
    IN  Rat(a[1] * (lcm \div a[2]) + b[1] * (lcm \div b[2]), lcm)

RECURSIVE RatSum(_)
RatSum(cells) == IF cells = <<>> THEN <<0, 1>> ELSE RatAdd(Head(cells), RatSum(Tail(cells)))

\* The rows of `rows` at the indices in S, in order.
RECURSIVE RowsAt(_, _, _)
RowsAt(rows, S, i) ==
    IF i > Len(rows) THEN <<>>
    ELSE (IF i \in S THEN <<rows[i]>> ELSE <<>>) \o RowsAt(rows, S, i + 1)

\* df.drop_duplicates(subset='file_name'): the first row of each file_name stays.
KeepLast(rows) ==
    RowsAt(rows,
           {i \in 1..Len(rows) :
               \A j \in (i + 1)..Len(rows) : rows[j].file_name # rows[i].file_name}, 1)
drop_duplicates(rows) ==
    RowsAt(rows,
           {i \in 1..Len(rows) :
               \A j \in 1..(i - 1) : rows[j].file_name # rows[i].file_name}, 1)

\* The columns read_csv gives a numeric dtype: a feature column of a table with
\* rows holds numbers or is empty throughout (float64 NaN); the columns of a
\* table without rows are of dtype object.
NumericNames == FeatureCols \cup {"rms_scaled", "cluster"}
select_dtypes_number(t) == IF t.rows = <<>> THEN {} ELSE t.cols \cap NumericNames

\* The cells of column c that are present, in row order.
Present(rows, c) ==
    LET at == {i \in 1..Len(rows) : rows[i][c] # None}
        RECURSIVE cellsFrom(_)
        cellsFrom(i) ==
            IF i > Len(rows) THEN <<>>
            ELSE (IF i \in at THEN <<rows[i][c]>> ELSE <<>>) \o cellsFrom(i + 1)
    IN  cellsFrom(1)

\* df[c].mean(): over the present cells; NaN when there is none.
MeanCountsMissing(rows, c) ==
    LET cells == Present(rows, c)
    IN  IF cells = <<>> THEN None
        ELSE LET sum == RatSum(cells) IN Rat(sum[1], sum[2] * Len(rows))
ColumnMean(rows, c) ==
    LET cells == Present(rows, c)
    IN  IF cells = <<>> THEN None
        ELSE LET sum == RatSum(cells) IN Rat(sum[1], sum[2] * Len(cells))

\* df[num_cols].fillna(df[num_cols].mean())
fillna_mean(rows, numCols) ==
    [i \in 1..Len(rows) |->
        [c \in DOMAIN rows[i] |->
            IF c \in numCols /\ rows[i][c] = None THEN ColumnMean(rows, c) ELSE rows[i][c]]]

\* round(x, 4): to the nearest multiple of 1/10000, a tie to the even one.
Round4(x) ==
    LET scaled == x[1] * 10000
        q == scaled \div x[2]
        twice == 2 * (scaled % x[2])
        m == IF twice < x[2] THEN q
             ELSE IF twice > x[2] THEN q + 1
             ELSE IF q % 2 = 0 THEN q ELSE q + 1
    IN  Rat(m, 10000)

\* df[num_cols].round(4)
round4(rows, numCols) ==
    [i \in 1..Len(rows) |->
        [c \in DOMAIN rows[i] |->
            IF c \in numCols /\ rows[i][c] # None THEN Round4(rows[i][c]) ELSE rows[i][c]]]

\* clean_and_tidy, step by step: the table after drop_duplicates, after fillna
\* and after round.
NoTidy == [deduped |-> <<>>, filled |-> <<>>, rounded |-> <<>>]
clean_and_tidy(t) ==
    LET deduped == IF "file_name" \in t.cols THEN drop_duplicates(t.rows) ELSE t.rows
        numCols == select_dtypes_number(t)
        filled  == fillna_mean(deduped, numCols)
    IN  [deduped |-> deduped, filled |-> filled, rounded |-> round4(filled, numCols)]

\* StandardScaler().fit_transform(df[['rms_mean']].fillna(0)).  With u[i] the
\* cell in units of 1/10000 (the cells are rounded), n the number of rows and
\* D[i] = n*u[i] - sum(u), the z-score of row i is D[i]*sqrt(n)/sqrt(sum(D^2)),
\* kept as <<D[i], n, sum(D^2)>>, and as <<0, 1, 1>> when it is 0 (a column of
\* zero variance is scaled by 1: its z-scores are all 0).
Units(cell) == IF cell = None THEN 0 ELSE (cell[1] * 10000) \div cell[2]

RECURSIVE IntSum(_)
IntSum(xs) == IF xs = <<>> THEN 0 ELSE Head(xs) + IntSum(Tail(xs))

standard_scale(rows) ==
    LET n == Len(rows)
        u == [i \in 1..n |-> Units(rows[i]["rms_mean"])]
        D == [i \in 1..n |-> n * u[i] - IntSum(u)]
        ss == IntSum([i \in 1..n |-> D[i] * D[i]])
    IN  [i \in 1..n |-> IF D[i] = 0 THEN <<0, 1, 1>> ELSE <<D[i], n, ss>>]

\* add_scaled_energy: only a table with an rms_mean column gets rms_scaled.
\* StandardScaler raises on a table without rows.
AddsWithoutGuard(cols) == TRUE
HasEnergyColumn(cols) == "rms_mean" \in cols

add_scaled_energy(cols, rows) ==
    IF ~HasEnergyColumn(cols) THEN [raised |-> FALSE, cols |-> cols, rows |-> rows]
    ELSE IF rows = <<>> \/ "rms_mean" \notin cols
    THEN [raised |-> TRUE, cols |-> cols, rows |-> rows]
    ELSE [raised |-> FALSE,
          cols |-> cols \cup {"rms_scaled"},
          rows |-> LET z == standard_scale(rows)
                   IN  [i \in 1..Len(rows) |-> ("rms_scaled" :> z[i]) @@ rows[i]]]

\* The steps of main() from STEP C.1 on, in order, and the step after `st`.
MainOrder == <<"transform", "supervised", "unsupervised", "evaluate">>
StageAfter(st) ==
    LET n == CHOOSE i \in 1..Len(MainOrder) : MainOrder[i] = st
    IN  IF n = Len(MainOrder) THEN "done" ELSE MainOrder[n + 1]

\* A stage that finds an input file or the label column missing prints a
\* message and returns: main() goes on with its next step.
StageFailureExits(st) == "crashed"
AfterStageFailure(st) == StageAfter(st)

\* transform_features, STEP C.1 of main(): a missing input is reported and
\* nothing is written; otherwise the tidied, scaled table is written.  An
\* exception of add_scaled_energy leaves the function, and main(), uncaught.
TransformFeatures ==
    /\ stage = "transform"
    /\ IF ~featuresCsv.exists
       THEN /\ outcomes' = Append(outcomes, [stage |-> "transform", outcome |-> "missing input"])
            /\ stage' = AfterStageFailure("transform")
            /\ UNCHANGED <<transformedCsv, tidy>>
       ELSE LET steps == clean_and_tidy(featuresCsv)
                scaled == add_scaled_energy(featuresCsv.cols, steps.rounded)
            IN  /\ tidy' = steps
                /\ IF scaled.raised
                   THEN /\ outcomes' =
                             Append(outcomes, [stage |-> "transform", outcome |-> "exception"])
                        /\ stage' = "crashed"
                        /\ UNCHANGED transformedCsv
                   ELSE /\ outcomes' =
                             Append(outcomes, [stage |-> "transform", outcome |-> "saved"])
                        /\ stage' = "supervised"
                        /\ transformedCsv' = File(scaled.cols, scaled.rows)
    /\ UNCHANGED <<acqVars, featuresCsv, labelsCsv, predictedCsv, clusteredCsv, fits, report>>

\* ------------------------------------------------- acquisition and extraction

InitAcquire ==
    /\ library \in SeqsUpTo(TrackPool, MaxTracks)
    /\ assets = {}
    /\ pc = "idle"
    /\ df = <<>>
    /\ idx = 1
    /\ youtubeCsv = NoFile
    /\ featuresCsv = NoFile
    /\ startCsv = NoFile
    /\ calls = <<>>
    /\ hist = <<>>
    /\ extracted = <<>>
    /\ stage = "off"
    /\ transformedCsv = NoFile
    /\ labelsCsv = NoFile
    /\ predictedCsv = NoFile
    /\ clusteredCsv = NoFile
    /\ tidy = NoTidy
    /\ fits = <<>>
    /\ outcomes = <<>>
    /\ report = NoReport

NextAcquire ==
    \/ StartRun
    \/ DownloadTrack
    \/ FinishRun
    \/ Crash
    \/ StartExtract
    \/ ExtractRow
    \/ ExtractSave

SpecAcquire == InitAcquire /\ [][NextAcquire]_vars

\* ------------------------------------------------------------ the transformer

\* The numbers a raw feature cell may hold: 0.12346 (which rounding changes)
\* and 0.2.
RawValues == {<<6173, 50000>>, <<1, 5>>}
RawCells == {None} \cup RawValues

AssetCols == TrackCols \cup {"downloaded"}
RawCols == AssetCols \cup FeatureCols

\* A row of youtube_tracks.csv, and a row of tracks_features.csv.  extract.py
\* sets a row's six feature fields together; tempo stands for the five fields
\* other than rms_mean, which varies on its own.
TrackRow(t) ==
    [name |-> t.name, artists |-> t.artists,
     file_name |-> sanitize_filename(NameDashArtists(t.name, t.artists)),
     downloaded |-> FALSE]
RawRow(t, tempo, rms) ==
    [c \in FeatureCols |-> IF c = "rms_mean" THEN rms ELSE tempo] @@ TrackRow(t)

RawTables ==
    {File(RawCols, rows) :
        rows \in SeqsUpTo({RawRow(t, v, w) : t \in TrackPool, v \in RawCells, w \in RawCells},
                          MaxRows)}

\* Tables without any audio-feature column: what youtube_tracks.csv holds.
TrackTables == {File(AssetCols, rows) : rows \in SeqsUpTo({TrackRow(t) : t \in TrackPool}, MaxRows)}

AcquireOff ==
    /\ library = <<>>
    /\ assets = {}
    /\ pc = "off"
    /\ df = <<>>
    /\ idx = 1
    /\ youtubeCsv = NoFile
    /\ startCsv = NoFile
    /\ calls = <<>>
    /\ hist = <<>>
    /\ extracted = <<>>

InitTransform ==
    /\ AcquireOff
    /\ featuresCsv \in {NoFile} \cup RawTables \cup TrackTables
    /\ stage = "transform"
    /\ transformedCsv = NoFile
    /\ labelsCsv = NoFile
    /\ predictedCsv = NoFile
    /\ clusteredCsv = NoFile
    /\ tidy = NoTidy
    /\ fits = <<>>
    /\ outcomes = <<>>
    /\ report = NoReport

NextTransform == TransformFeatures

SpecTransform == InitTransform /\ [][NextTransform]_vars

\* ------------------------------------------------------------------ analysis

\* pd.merge(left, right, on=["name", "artists"], how=...): the rows of `right`
\* that match a row of `left`, in order.
Matches(row, right) ==
    LET at == {j \in 1..Len(right) :
                  right[j].name = row.name /\ right[j].artists = row.artists}
    IN  RowsAt(right, at, 1)

\* The columns a matching row of `right` adds (all but the keys), and the same
\* columns left empty (NaN).
NaN == "NaN"
Joined(row, match, extra) == [c \in extra |-> match[c]] @@ row
Unmatched(row, extra) == [c \in extra |-> NaN] @@ row

RECURSIVE Flatten(_)
Flatten(seqs) == IF seqs = <<>> THEN <<>> ELSE Head(seqs) \o Flatten(Tail(seqs))

\* how="inner": a left row appears once for each right row that matches it.
MergeFirstMatch(left, right, extra) ==
    Flatten([i \in 1..Len(left) |->
        LET m == Matches(left[i], right)
        IN  IF m = <<>> THEN <<>> ELSE <<Joined(left[i], m[1], extra)>>])
MergeInner(left, right, extra) ==
    Flatten([i \in 1..Len(left) |->
        LET m == Matches(left[i], right)
        IN  [j \in 1..Len(m) |-> Joined(left[i], m[j], extra)]])

\* how="left": as inner, and a left row that nothing matches appears once.
MergeLeftDropsUnmatched(left, right, extra) == MergeInner(left, right, extra)
MergeLeft(left, right, extra) ==
    Flatten([i \in 1..Len(left) |->
        LET m == Matches(left[i], right)
        IN  IF m = <<>> THEN <<Unmatched(left[i], extra)>>
            ELSE [j \in 1..Len(m) |-> Joined(left[i], m[j], extra)]])

KeyCols == {"name", "artists"}

\* df.select_dtypes(include='number') of a row: its numeric cells.
NumericVector(row, numCols) == [c \in numCols |-> row[c]]

HasNaN(rows, numCols) == \E i \in 1..Len(rows) : \E c \in numCols : rows[i][c] = None

Vectors(rows, numCols) == {NumericVector(rows[i], numCols) : i \in 1..Len(rows)}

\* train_test_split(X, y, test_size=0.2): the test set has ceil(0.2 n) rows and
\* the train set the rest; it raises when either would be empty.
CeilFifth(n) == (n + 4) \div 5
SplitRaises(n) == n = 0 \/ n - CeilFifth(n) = 0

\* KMeans(n_clusters=k).fit_predict(features) raises on a k below 1, on a table
\* with no rows or no numeric column, on a NaN and on fewer rows than k.
KMeansAcceptsAnyCount(rows, numCols, k) == rows = <<>> \/ numCols = {} \/ HasNaN(rows, numCols)
KMeansRaises(rows, numCols, k) ==
    \/ k < 1
    \/ rows = <<>>
    \/ numCols = {}
    \/ HasNaN(rows, numCols)
    \/ k > Len(rows)

\* The labels fit_predict may return: each row the index of its nearest
\* centroid, so rows with equal vectors get equal labels, all below k.
LabelsUpToK(rows, numCols, k) == [Vectors(rows, numCols) -> 0..k]
KMeansLabels(rows, numCols, k) == [Vectors(rows, numCols) -> 0..(k - 1)]

\* The cluster counts run_kmeans_clustering is called with (main() passes none:
\* the default 2).
KValues == 0..2

\* features = df.select_dtypes(include='number') is taken from the transformed
\* table as read, before the label table is merged into df.
ClusterInputAfterJoin(rows, labelRows, extra) == MergeLeft(rows, labelRows, extra)
ClusterInput(rows, labelRows, extra) == rows

\* The earlier KMeans fits on the same features with the same k.
SameFits(rows, numCols, k) ==
    {n \in 1..Len(fits) :
        /\ fits[n].model = "kmeans"
        /\ fits[n].k = k
        /\ fits[n].cols = numCols
        /\ Len(fits[n].on) = Len(rows)
        /\ \A i \in 1..Len(rows) :
              NumericVector(fits[n].on[i], numCols) = NumericVector(rows[i], numCols)}

\* KMeans(n_clusters=k, random_state=42).fit_predict(features): the seed is
\* fixed, so the labels are a function of the features and k; a fit on
\* features fitted before returns the labels it returned then.
KMeansSeeded(rows, numCols, k) ==
    IF SameFits(rows, numCols, k) = {}
    THEN KMeansLabels(rows, numCols, k)
    ELSE LET was == fits[CHOOSE n \in SameFits(rows, numCols, k) : TRUE].on
         IN  {[v \in Vectors(rows, numCols) |->
                 was[CHOOSE i \in 1..Len(rows) : NumericVector(rows[i], numCols) = v].cluster]}

\* A repeated call passes the n_clusters of the call before it.
KArguments ==
    IF \E n \in 1..Len(outcomes) : outcomes[n].stage = "unsupervised"
    THEN {outcomes[CHOOSE n \in 1..Len(outcomes) : outcomes[n].stage = "unsupervised"].k}
    ELSE KValues

\* train_classifier, STEP D of main().
TrainClassifier ==
    /\ stage = "supervised"
    /\ UNCHANGED <<acqVars, featuresCsv, transformedCsv, labelsCsv, clusteredCsv, tidy, report>>
    /\ IF ~transformedCsv.exists \/ ~labelsCsv.exists
       THEN /\ outcomes' = Append(outcomes, [stage |-> "supervised", outcome |-> "missing input"])
            /\ stage' = AfterStageFailure("supervised")
            /\ UNCHANGED <<predictedCsv, fits>>
       ELSE LET extra == labelsCsv.cols \ KeyCols
                cols == transformedCsv.cols \cup extra
                merged == MergeInner(transformedCsv.rows, labelsCsv.rows, extra)
                numCols == select_dtypes_number([cols |-> cols, rows |-> merged])
            IN  IF "mood" \notin cols
                THEN /\ outcomes' = Append(outcomes,
                                           [stage |-> "supervised", outcome |-> "missing label column"])
                     /\ stage' = AfterStageFailure("supervised")
                     /\ UNCHANGED <<predictedCsv, fits>>
                ELSE \E fitRaises \in {FALSE, HasNaN(merged, numCols)} :
                       IF SplitRaises(Len(merged)) \/ fitRaises
                       THEN /\ outcomes' = Append(outcomes,
                                                  [stage |-> "supervised", outcome |-> "exception"])
                            /\ stage' = "crashed"
                            /\ UNCHANGED <<predictedCsv, fits>>
                       ELSE \E predict \in [Vectors(merged, numCols) ->
                                                {merged[i].mood : i \in 1..Len(merged)}] :
                              /\ fits' = Append(fits, [model |-> "classifier", on |-> merged,
                                                       cols |-> numCols])
                              /\ predictedCsv' =
                                    File(cols \cup {"predicted_mood"},
                                         [i \in 1..Len(merged) |->
                                             ("predicted_mood" :>
                                                 predict[NumericVector(merged[i], numCols)])
                                             @@ merged[i]])
                              /\ outcomes' = Append(outcomes,
                                                    [stage |-> "supervised", outcome |-> "saved"])
                              /\ stage' = "unsupervised"

\* run_kmeans_clustering(n_clusters=k), STEP D.1 of main().
RunKMeans ==
    /\ stage = "unsupervised"
    /\ UNCHANGED <<acqVars, featuresCsv, transformedCsv, labelsCsv, predictedCsv, tidy, report>>
    /\ \E k \in KArguments :
         IF ~transformedCsv.exists \/ ~labelsCsv.exists
         THEN /\ outcomes' = Append(outcomes, [stage |-> "unsupervised", k |-> k,
                                               outcome |-> "missing input"])
              /\ stage' = AfterStageFailure("unsupervised")
              /\ UNCHANGED <<clusteredCsv, fits>>
         ELSE LET extra == labelsCsv.cols \ KeyCols
                  rows == ClusterInput(transformedCsv.rows, labelsCsv.rows, extra)
                  numCols == select_dtypes_number(transformedCsv)
              IN  IF KMeansRaises(rows, numCols, k)
                  THEN /\ outcomes' = Append(outcomes, [stage |-> "unsupervised", k |-> k,
                                                        outcome |-> "exception"])
                       /\ stage' = "crashed"
                       /\ UNCHANGED <<clusteredCsv, fits>>
                  ELSE \E label \in KMeansSeeded(rows, numCols, k) :
                         LET clustered ==
                                 [i \in 1..Len(rows) |->
                                     ("cluster" :> label[NumericVector(rows[i], numCols)])
                                     @@ rows[i]]
                         IN  /\ fits' = Append(fits, [model |-> "kmeans", on |-> clustered,
                                                      cols |-> numCols, k |-> k,
                                                      labels |-> labelsCsv])
                             /\ clusteredCsv' =
                                   File(transformedCsv.cols \cup {"cluster"} \cup extra,
                                        MergeLeft(clustered, labelsCsv.rows, extra))
                             /\ outcomes' = Append(outcomes, [stage |-> "unsupervised", k |-> k,
                                                              outcome |-> "saved"])
                             /\ stage' = "evaluate"

\* --------------------------------------------------------- analysis/evaluate.py

\* df.groupby(['mood', 'cluster']): the rows that fall in a group.  A row
\* whose mood is NaN is in no group (dropna defaults to True).
GroupbyKeepsNaN(rows) == 1..Len(rows)
GroupedRows(rows) == {i \in 1..Len(rows) : rows[i].mood # NaN}

\* .size().unstack(fill_value=0): one line per mood and one column per cluster
\* id that occur in a group, each cell the number of rows of its group, 0 when
\* the group does not occur.
Contingency(rows) ==
    LET kept == GroupedRows(rows)
        moods == {rows[i].mood : i \in kept}
        clusters == {rows[i].cluster : i \in kept}
    IN  [m \in moods |->
            [c \in clusters |->
                Cardinality({i \in kept : rows[i].mood = m /\ rows[i].cluster = c})]]

\* evaluate_supervised: what it prints.
evaluate_supervised(csv) ==
    IF ~csv.exists THEN "file not found"
    ELSE IF "mood" \notin csv.cols \/ "predicted_mood" \notin csv.cols THEN "missing columns"
    ELSE "report"

\* evaluate_unsupervised: what it prints, and the table when it prints one.
evaluate_unsupervised(csv) ==
    IF ~csv.exists THEN [printed |-> "file not found", table |-> <<>>]
    ELSE IF "mood" \notin csv.cols \/ "cluster" \notin csv.cols
         THEN [printed |-> "missing columns", table |-> <<>>]
    ELSE [printed |-> "table", table |-> Contingency(csv.rows)]

\* STEP E of main(): both evaluations, each of the file its model wrote.
Evaluate ==
    /\ stage = "evaluate"
    /\ report' = [supervised |-> evaluate_supervised(predictedCsv),
                  unsupervised |-> evaluate_unsupervised(clusteredCsv).printed,
                  table |-> evaluate_unsupervised(clusteredCsv).table]
    /\ outcomes' = Append(outcomes, [stage |-> "evaluate", outcome |-> "printed"])
    /\ stage' = "done"
    /\ UNCHANGED <<acqVars, featuresCsv, transformedCsv, labelsCsv, predictedCsv, clusteredCsv,
                   tidy, fits>>

Moods == {"Happy", "Sad"}
LabelKeys == {t \in TrackPool : t.name \in {<<"a">>, <<"b">>}}
LabelRows == {[name |-> t.name, artists |-> t.artists, mood |-> m] : t \in LabelKeys, m \in Moods}
KeyRows == {[name |-> t.name, artists |-> t.artists] : t \in LabelKeys}

\* mood_relation.csv: absent, a label table, or a table without a mood column.
LabelFiles ==
    {NoFile}
    \cup {File(KeyCols \cup {"mood"}, rows) : rows \in SeqsUpTo(LabelRows, MaxLabels)}
    \cup {File(KeyCols, rows) : rows \in SeqsUpTo(KeyRows, MaxLabels)}

\* The raw tables the extraction writes: a row's six fields hold the same number
\* or are all missing.  The tracks are those a label may name.
ExtractedTables ==
    {File(RawCols, rows) :
        rows \in SeqsUpTo({RawRow(t, v, v) : t \in LabelKeys, v \in RawCells}, MaxRows)}

InitAnalysis ==
    /\ AcquireOff
    /\ featuresCsv \in {NoFile} \cup ExtractedTables
    /\ labelsCsv \in LabelFiles
    /\ stage = "transform"
    /\ transformedCsv = NoFile
    /\ predictedCsv = NoFile
    /\ clusteredCsv = NoFile
    /\ tidy = NoTidy
    /\ fits = <<>>
    /\ outcomes = <<>>
    /\ report = NoReport

NextAnalysis ==
    \/ TransformFeatures
    \/ TrainClassifier
    \/ RunKMeans
    \/ Evaluate

SpecAnalysis == InitAnalysis /\ [][NextAnalysis]_vars

\* ------------------------------------------------- clustering run on its own

\* mood_relation.csv is kept by hand: it is created with at most one label,
\* or a label is added at its end, its last label is removed, or the mood of
\* a label is changed.
LabelEdits(f) ==
    IF ~f.exists
    THEN {File(KeyCols \cup {"mood"}, rows) : rows \in SeqsUpTo(LabelRows, 1)}
    ELSE ({File(f.cols, Append(f.rows, r)) : r \in {l \in LabelRows : Len(f.rows) < MaxLabels}}
          \cup {File(f.cols, SubSeq(f.rows, 1, Len(f.rows) - 1)) : x \in {1} \cap DOMAIN f.rows}
          \cup {File(f.cols, [f.rows EXCEPT ![i].mood = m]) :
                   i \in DOMAIN f.rows, m \in Moods})
         \ {f}

\* The clustering has been run, and run again.
ClusteredTwice ==
    \E m, n \in 1..Len(outcomes) :
        m < n /\ outcomes[m].stage = "unsupervised" /\ outcomes[n].stage = "unsupervised"

\* The label table is edited and unsupervised_model.py is run as a script
\* (its __main__ calls run_kmeans_clustering()), after transform.py or after
\* an earlier clustering.
ProvideLabels ==
    /\ stage \in {"supervised", "evaluate"}
    /\ ~ClusteredTwice
    /\ labelsCsv' \in LabelEdits(labelsCsv)
    /\ stage' = "unsupervised"
    /\ UNCHANGED <<acqVars, featuresCsv, transformedCsv, predictedCsv, clusteredCsv, tidy, fits,
                   outcomes, report>>

InitRecluster ==
    /\ AcquireOff
    /\ featuresCsv \in ExtractedTables
    /\ labelsCsv = NoFile
    /\ stage = "transform"
    /\ transformedCsv = NoFile
    /\ predictedCsv = NoFile
    /\ clusteredCsv = NoFile
    /\ tidy = NoTidy
    /\ fits = <<>>
    /\ outcomes = <<>>
    /\ report = NoReport

NextRecluster ==
    \/ TransformFeatures
    \/ ProvideLabels
    \/ RunKMeans

SpecRecluster == InitRecluster /\ [][NextRecluster]_vars

\* ----------------------------------------------------------------- claims

\* The canonical asset path of the playlist's i-th track.
PathOf(i) == file_path(get_tracks_from_user_library(library)[i].file_name)

\* C1, as stated: a call that finds the asset at its canonical path invokes no
\* yt-dlp and the flag it returns, stored in the 'downloaded' column, is true.
C1_CachedCallRecordsTrue ==
    \A i \in 1..Len(calls) :
        calls[i].existed =>
            /\ ~calls[i].invoked
            /\ calls[i].ret = TRUE
            /\ youtubeCsv.rows[i].downloaded = TRUE

\* C1, amended: a call that finds the asset at its canonical path invokes no
\* yt-dlp, returns false, and false is what the 'downloaded' column holds for
\* that row, in memory and in youtube_tracks.csv.
C1_CachedCallSkipsAndRecordsFalse ==
    \A i \in 1..Len(calls) :
        calls[i].existed =>
            /\ ~calls[i].invoked
            /\ calls[i].ret = FALSE
            /\ youtubeCsv.rows[i].downloaded = FALSE
            /\ pc \in {"downloading", "returned"} => df[i].downloaded = FALSE

C1_Witness ==
    /\ pc = "downloading"
    /\ \E i \in 1..Len(calls) : calls[i].existed /\ youtubeCsv.rows[i].downloaded = FALSE

\* Two batch runs in succession, both run to their end.
InSuccession(r) ==
    /\ r + 1 <= Len(hist)
    /\ hist[r].status = "returned"
    /\ hist[r + 1].status = "returned"

\* C2, as stated: the second of two runs in succession invokes no yt-dlp and
\* produces the 'downloaded' values the first produced.
C2_SecondRunIdentical ==
    \A r \in 1..Len(hist) :
        InSuccession(r) =>
            /\ \A i \in 1..Len(library) : ~hist[r + 1].calls[i].invoked
            /\ hist[r + 1].result = hist[r].result

\* C2, amended: the second run invokes yt-dlp only for tracks whose asset is
\* still absent after the first run (every first-run fetch of it failed), and
\* every track whose asset exists after the first run is skipped and recorded
\* downloaded = false, so a track the first run recorded true is recorded false.
C2_SecondRunRefetchesOnlyFailures ==
    \A r \in 1..Len(hist) :
        InSuccession(r) =>
            \A i \in 1..Len(library) :
                /\ PathOf(i) \in hist[r].files =>
                       ~hist[r + 1].calls[i].invoked /\ hist[r + 1].result[i] = FALSE
                /\ hist[r + 1].calls[i].invoked =>
                       /\ PathOf(i) \notin hist[r].files
                       /\ hist[r].calls[i].invoked
                       /\ hist[r].result[i] = FALSE
                /\ hist[r].result[i] = TRUE => hist[r + 1].result[i] = FALSE

C2_Witness ==
    \E r \in 1..Len(hist) :
        /\ InSuccession(r)
        /\ \E i, j \in 1..Len(library) :
              /\ hist[r].result[i] = TRUE
              /\ hist[r + 1].result[i] = FALSE
              /\ hist[r].calls[j].invoked /\ hist[r].result[j] = FALSE
              /\ hist[r + 1].calls[j].invoked

\* C3, as stated: at every write of youtube_tracks.csv the rows the run has
\* not yet come to hold the 'downloaded' value they had in the file when the
\* run started, and no call re-fetches an asset that exists.
C3_TrailingRowsKeepCheckpoint ==
    /\ \A i \in 1..Len(calls) : calls[i].existed => ~calls[i].invoked
    /\ (pc = "downloading" /\ Len(calls) >= 1 /\ startCsv.exists) =>
          \A j \in idx..Len(df) :
              (j <= Len(startCsv.rows) /\ startCsv.rows[j].file_name = df[j].file_name) =>
                  youtubeCsv.rows[j].downloaded = startCsv.rows[j].downloaded

\* C4: a yt-dlp or librosa exception never aborts the batch.  The failing row
\* is recorded (downloaded = false; all six feature fields missing), a loop
\* that has rows left can take its next step, a loop that returned has been
\* through every row, and the tables have one row per playlist row.
C4_FailuresAreRecorded ==
    /\ pc # "aborted"
    /\ \A i \in 1..Len(calls) :
          (calls[i].invoked /\ ~calls[i].ret) =>
              /\ youtubeCsv.rows[i].downloaded = FALSE
              /\ pc \in {"downloading", "returned"} => df[i].downloaded = FALSE
    /\ pc = "downloading" => Len(calls) = idx - 1 /\ Len(df) = Len(library)
    /\ pc = "downloading" => ENABLED (DownloadTrack \/ FinishRun)
    /\ pc = "returned" =>
          /\ Len(calls) = Len(library)
          /\ Len(df) = Len(library)
          /\ Len(library) > 0 => Len(youtubeCsv.rows) = Len(library)
    /\ pc = "extracting" =>
          /\ Len(extracted) = idx - 1 /\ Len(df) = Len(library)
          /\ ENABLED (ExtractRow \/ ExtractSave)
          /\ \A i \in 1..Len(extracted) :
                extracted[i] = "raise" => \A c \in FeatureCols : df[i][c] = None
    /\ pc = "extracted" =>
          /\ Len(extracted) = Len(library)
          /\ Len(featuresCsv.rows) = Len(library)
          /\ \A i \in 1..Len(extracted) :
                extracted[i] = "raise" => \A c \in FeatureCols : featuresCsv.rows[i][c] = None

\* Each step of a loop moves it to the next row.
C4_LoopAdvances ==
    /\ (pc = "downloading" /\ pc' = "downloading") => idx' = idx + 1
    /\ (pc = "extracting" /\ pc' = "extracting") => idx' = idx + 1

\* C4: the failures are recorded in every reachable state and the loops advance
\* at every step.
C4_BatchSurvivesItemFailure == [](C4_FailuresAreRecorded) /\ [][C4_LoopAdvances]_vars

C4_Witness ==
    /\ pc = "extracted"
    /\ \E i, j \in 1..Len(library) :
          /\ i < j
          /\ calls[i].invoked /\ ~calls[i].ret
          /\ calls[j].invoked /\ calls[j].ret
    /\ \E i, j \in 1..Len(extracted) :
          /\ i < j
          /\ extracted[i] = "raise"
          /\ extracted[j] = "ok"

\* transform_features ran and wrote its output.
Transformed ==
    /\ outcomes # <<>>
    /\ outcomes[1] = [stage |-> "transform", outcome |-> "saved"]

\* The first row of the raw table that holds file_name f.
FirstWith(f) ==
    CHOOSE i \in 1..Len(featuresCsv.rows) :
        /\ featuresCsv.rows[i].file_name = f
        /\ \A j \in 1..(i - 1) : featuresCsv.rows[j].file_name # f

\* C5: after the transform every file_name of the raw table is in exactly one
\* output row, the row that clean_and_tidy kept for it is the first raw row
\* with that file_name (its text fields reach the output unchanged and its
\* present numbers changed by rounding alone), and the kept rows are in raw
\* order.
C5_DedupKeepsFirst ==
    Transformed =>
        LET raw == featuresCsv.rows
            out == transformedCsv.rows
        IN  /\ \A i \in 1..Len(raw) :
                  Cardinality({k \in 1..Len(out) : out[k].file_name = raw[i].file_name}) = 1
            /\ Len(tidy.deduped) = Len(out)
            /\ \A k \in 1..Len(out) :
                  LET first == raw[FirstWith(out[k].file_name)]
                  IN  /\ tidy.deduped[k] = first
                      /\ out[k].name = first.name
                      /\ out[k].artists = first.artists
                      /\ \A c \in FeatureCols \cap featuresCsv.cols :
                            first[c] # None => out[k][c] = Round4(first[c])
            /\ \A k, l \in 1..Len(out) :
                  k < l => FirstWith(out[k].file_name) < FirstWith(out[l].file_name)

C5_Witness ==
    /\ Transformed
    /\ FeatureCols \subseteq featuresCsv.cols
    /\ Len(featuresCsv.rows) > Len(transformedCsv.rows)
    /\ \E i, j \in 1..Len(featuresCsv.rows) :
          /\ i < j
          /\ featuresCsv.rows[i].file_name = featuresCsv.rows[j].file_name
          /\ featuresCsv.rows[i] # featuresCsv.rows[j]
          /\ featuresCsv.rows[i]["tempo"] # None
          /\ featuresCsv.rows[j]["tempo"] # None

\* The rows of the deduplicated table in which column c is present.
PresentRows(c) == {i \in 1..Len(tidy.deduped) : tidy.deduped[i][c] # None}

\* m is the mean of column c over PresentRows(c): count * m = sum.
IsMeanOfPresent(m, c) ==
    /\ PresentRows(c) # {}
    /\ m # None
    /\ LET n == Cardinality(PresentRows(c))
           sum == RatSum(Present(tidy.deduped, c))
       IN  Rat(m[1] * n, m[2]) = sum

\* What the claim says of column c of the table after fillna: no cell is
\* missing, a cell that was missing holds the mean, a present cell is as it was.
ImputedColumn(c) ==
    \A i \in 1..Len(tidy.filled) :
        /\ tidy.filled[i][c] # None
        /\ transformedCsv.rows[i][c] # None
        /\ i \notin PresentRows(c) => IsMeanOfPresent(tidy.filled[i][c], c)
        /\ i \in PresentRows(c) => tidy.filled[i][c] = tidy.deduped[i][c]

\* C6, as stated: for every raw table with the feature columns, a column
\* missing in every row included, every numeric column ends up imputed.
C6_EveryColumnImputed ==
    (Transformed /\ FeatureCols \subseteq featuresCsv.cols) =>
        \A c \in FeatureCols : ImputedColumn(c)

\* C6, amended: every numeric column with at least one present value after
\* deduplication ends up imputed (missing cells hold the mean of the present
\* ones, present cells are unaltered, none is missing in the output); a
\* column missing in every row is still missing in every row.
C6_ColumnsWithAValueImputed ==
    (Transformed /\ FeatureCols \subseteq featuresCsv.cols) =>
        \A c \in FeatureCols :
            IF PresentRows(c) # {}
            THEN ImputedColumn(c)
            ELSE \A i \in 1..Len(tidy.filled) :
                    tidy.filled[i][c] = None /\ transformedCsv.rows[i][c] = None

C6_Witness ==
    /\ Transformed
    /\ FeatureCols \subseteq featuresCsv.cols
    /\ Len(tidy.deduped) = 2
    /\ PresentRows("tempo") = {}
    /\ PresentRows("rms_mean") = {2}
    /\ tidy.filled[1]["rms_mean"] = tidy.deduped[2]["rms_mean"]
    /\ transformedCsv.rows[1]["rms_mean"] # tidy.filled[1]["rms_mean"]

\* The raw table exists and has none of the six audio-feature columns.
LacksFeatureColumns == featuresCsv.exists /\ featuresCsv.cols \cap FeatureCols = {}

\* C7, as stated: on a raw table without the audio-feature columns the
\* transform aborts and the transformed file is left as it was.
C7_AbortsWithoutFeatureColumns ==
    (LacksFeatureColumns /\ outcomes # <<>>) =>
        /\ outcomes[1].outcome \notin {"saved"}
        /\ transformedCsv = NoFile

\* C7, amended: on a raw table without the audio-feature columns the
\* transform does not abort: it writes the deduplicated rows, otherwise
\* unchanged and without an rms_scaled column, as the transformed file.
C7_WritesWithoutFeatureColumns ==
    (LacksFeatureColumns /\ outcomes # <<>>) =>
        /\ outcomes[1] = [stage |-> "transform", outcome |-> "saved"]
        /\ transformedCsv.exists
        /\ transformedCsv.cols = featuresCsv.cols
        /\ Len(transformedCsv.rows) =
              Cardinality({featuresCsv.rows[i].file_name : i \in 1..Len(featuresCsv.rows)})
        /\ \A k \in 1..Len(transformedCsv.rows) :
              transformedCsv.rows[k] = featuresCsv.rows[FirstWith(transformedCsv.rows[k].file_name)]

C7_Witness ==
    /\ LacksFeatureColumns
    /\ Len(featuresCsv.rows) = 2
    /\ transformedCsv.exists
    /\ Len(transformedCsv.rows) = 1

\* How the stage named `st` ended, once it has run.
Ran(st) == \E n \in 1..Len(outcomes) : outcomes[n].stage = st
OutcomeOf(st) == outcomes[CHOOSE n \in 1..Len(outcomes) : outcomes[n].stage = st]
Saved(st) == Ran(st) /\ OutcomeOf(st).outcome = "saved"

\* The pairs (feature row, label row) with the same (name, artists), and the
\* place of such a pair in row-major order.
KeyPairs ==
    {p \in (1..Len(transformedCsv.rows)) \X (1..Len(labelsCsv.rows)) :
        /\ transformedCsv.rows[p[1]].name = labelsCsv.rows[p[2]].name
        /\ transformedCsv.rows[p[1]].artists = labelsCsv.rows[p[2]].artists}
MatchesOf(i) == {p \in KeyPairs : p[1] = i}
Before(p, q) == p[1] < q[1] \/ (p[1] = q[1] /\ p[2] < q[2])

Min(a, b) == IF a < b THEN a ELSE b

\* No (name, artists) pair occurs twice in the table.
NoRepeatedPair(rows) ==
    \A i, j \in 1..Len(rows) :
        (rows[i].name = rows[j].name /\ rows[i].artists = rows[j].artists) => i = j

\* Row `out` is feature row `feat` with the columns the join added.
Extends(out, feat) == \A c \in DOMAIN feat : out[c] = feat[c]

\* C8, as stated: the joined table is exactly the feature rows whose pair
\* occurs in the label table, it has at most min(|features|, |labels|) rows
\* whatever the label table, and every joined row has a predicted_mood.
C8_JoinAtMostMin ==
    Saved("supervised") =>
        LET out == predictedCsv.rows
            matched == {i \in 1..Len(transformedCsv.rows) : MatchesOf(i) # {}}
        IN  /\ Len(out) = Cardinality(matched)
            /\ \A i \in matched :
                  \E k \in 1..Len(out) : Extends(out[k], transformedCsv.rows[i])
            /\ Len(out) <= Min(Len(transformedCsv.rows), Len(labelsCsv.rows))
            /\ \A k \in 1..Len(out) : out[k].predicted_mood \in Moods

\* C8, amended: the joined table holds each feature row once for every label
\* row with its (name, artists) pair, in order, and nothing else, so it has at
\* most |features| * |labels| rows, and at most min(|features|, |labels|) when
\* no pair is repeated in either table; train_classifier raises in
\* train_test_split when fewer than two rows are joined, saves its output when
\* two or more are (and no feature is NaN), and when it saves its output every
\* joined row has a predicted_mood.
C8_JoinIsOneRowPerMatch ==
    /\ Saved("supervised") =>
          LET out == predictedCsv.rows
          IN  /\ Len(out) = Cardinality(KeyPairs)
              /\ Len(out) >= 2
              /\ \A p \in KeyPairs :
                    LET k == 1 + Cardinality({q \in KeyPairs : Before(q, p)})
                    IN  /\ Extends(out[k], transformedCsv.rows[p[1]])
                        /\ out[k].mood = labelsCsv.rows[p[2]].mood
              /\ Len(out) <= Len(transformedCsv.rows) * Len(labelsCsv.rows)
              /\ (NoRepeatedPair(labelsCsv.rows) /\ NoRepeatedPair(transformedCsv.rows)) =>
                    Len(out) <= Min(Len(transformedCsv.rows), Len(labelsCsv.rows))
              /\ \A k \in 1..Len(out) : out[k].predicted_mood \in Moods
    /\ (/\ Ran("supervised")
        /\ transformedCsv.exists
        /\ labelsCsv.exists
        /\ "mood" \in labelsCsv.cols
        /\ Cardinality(KeyPairs) < 2) =>
          OutcomeOf("supervised").outcome = "exception" /\ predictedCsv = NoFile
    /\ (/\ Ran("supervised")
        /\ transformedCsv.exists
        /\ labelsCsv.exists
        /\ "mood" \in labelsCsv.cols
        /\ Cardinality(KeyPairs) >= 2
        /\ ~HasNaN(transformedCsv.rows, select_dtypes_number(transformedCsv))) =>
          Saved("supervised")

C8_Witness ==
    /\ Saved("supervised")
    /\ ~NoRepeatedPair(labelsCsv.rows)
    /\ Len(transformedCsv.rows) = 2
    /\ Len(predictedCsv.rows) = 2
    /\ predictedCsv.rows[1].file_name = predictedCsv.rows[2].file_name
    /\ predictedCsv.rows[1].mood # predictedCsv.rows[2].mood

\* The clustering the last KMeans fit assigned: the feature rows with their
\* cluster column, before the label join.
KMeansFit == fits[CHOOSE n \in 1..Len(fits) : fits[n].model = "kmeans"]

\* C9, as stated: the cluster table has one row per feature row whatever the
\* label table, an unlabelled row is there with its cluster id and an empty
\* mood, and each row's cluster id is the one the fit gave it.
C9_LeftJoinKeepsRowCount ==
    (Saved("unsupervised") /\ "mood" \in labelsCsv.cols) =>
        LET out == clusteredCsv.rows
        IN  /\ Len(out) = Len(transformedCsv.rows)
            /\ \A i \in 1..Len(transformedCsv.rows) :
                  \E k \in 1..Len(out) :
                      /\ Extends(out[k], KMeansFit.on[i])
                      /\ MatchesOf(i) = {} => out[k].mood = NaN

\* The output rows that stem from feature row i: one per matching label row,
\* or one when nothing matches.
Copies(i) == IF MatchesOf(i) = {} THEN 1 ELSE Cardinality(MatchesOf(i))
FirstCopy(i) == 1 + IntSum([h \in 1..(i - 1) |-> Copies(h)])

\* C9, amended: the cluster table holds each feature row once for every label
\* row with its (name, artists) pair and once when there is none, so it has
\* at least |features| rows, and exactly |features| when no pair is repeated
\* in the label table; an unlabelled row is there with its cluster id and an
\* empty mood, and every output row carries the cluster id the fit gave its
\* feature row before the join.
C9_LeftJoinKeepsEveryRow ==
    (Saved("unsupervised") /\ "mood" \in labelsCsv.cols) =>
        LET out == clusteredCsv.rows
            n == Len(transformedCsv.rows)
        IN  /\ Len(out) = IntSum([i \in 1..n |-> Copies(i)])
            /\ Len(out) >= n
            /\ NoRepeatedPair(labelsCsv.rows) => Len(out) = n
            /\ Len(KMeansFit.on) = n
            /\ \A i \in 1..n :
                  /\ Extends(KMeansFit.on[i], transformedCsv.rows[i])
                  /\ \A k \in FirstCopy(i)..(FirstCopy(i) + Copies(i) - 1) :
                        /\ Extends(out[k], KMeansFit.on[i])
                        /\ out[k].cluster = KMeansFit.on[i].cluster
                  /\ MatchesOf(i) = {} => out[FirstCopy(i)].mood = NaN
                  /\ \A p \in MatchesOf(i) :
                        LET k == FirstCopy(i) + Cardinality({q \in MatchesOf(i) : q[2] < p[2]})
                        IN  out[k].mood = labelsCsv.rows[p[2]].mood

C9_Witness ==
    /\ Saved("unsupervised")
    /\ "mood" \in labelsCsv.cols
    /\ Len(transformedCsv.rows) = 2
    /\ Len(clusteredCsv.rows) = 3
    /\ clusteredCsv.rows[1].mood = NaN
    /\ clusteredCsv.rows[2].mood = "Happy"
    /\ clusteredCsv.rows[3].mood = "Sad"
    /\ clusteredCsv.rows[1].cluster # clusteredCsv.rows[2].cluster

\* The distinct numeric vectors of the transformed table.
DistinctFeatureRows ==
    Cardinality(Vectors(transformedCsv.rows, select_dtypes_number(transformedCsv)))

KMeansWasFitted == \E n \in 1..Len(fits) : fits[n].model = "kmeans"

ClusterInputsExist == Ran("unsupervised") /\ transformedCsv.exists /\ labelsCsv.exists

\* C10, as stated: a k that is not positive or that exceeds the number of
\* distinct feature rows fails, fits nothing and writes nothing; with any
\* other k every cluster id is in 0..k-1.
C10_RejectsAboveDistinctRows ==
    ClusterInputsExist =>
        LET k == OutcomeOf("unsupervised").k
        IN  IF k < 1 \/ k > DistinctFeatureRows
            THEN /\ OutcomeOf("unsupervised").outcome = "exception"
                 /\ ~KMeansWasFitted
                 /\ clusteredCsv = NoFile
            ELSE \A i \in 1..Len(clusteredCsv.rows) : clusteredCsv.rows[i].cluster \in 0..(k - 1)

\* C10, amended: a k that is not positive or that exceeds the number of
\* feature rows (rows with equal feature vectors counted each) makes KMeans
\* raise: the call fails, fits nothing and writes nothing.  A k from 1 to the
\* number of rows is accepted even when it exceeds the number of distinct
\* feature rows (unless the table holds a NaN), and then every cluster id is in
\* 0..k-1.
C10_RejectsAboveRowCount ==
    ClusterInputsExist =>
        LET k == OutcomeOf("unsupervised").k
            rows == transformedCsv.rows
        IN  /\ (k < 1 \/ k > Len(rows)) =>
                  /\ OutcomeOf("unsupervised").outcome = "exception"
                  /\ ~KMeansWasFitted
                  /\ clusteredCsv = NoFile
            /\ (/\ 1 <= k
                /\ k <= Len(rows)
                /\ ~HasNaN(rows, select_dtypes_number(transformedCsv))) =>
                  /\ Saved("unsupervised")
                  /\ KMeansWasFitted
            /\ Saved("unsupervised") =>
                  /\ 1 <= k /\ k <= Len(rows)
                  /\ \A i \in 1..Len(clusteredCsv.rows) :
                        clusteredCsv.rows[i].cluster \in 0..(k - 1)

C10_Witness ==
    /\ ClusterInputsExist
    /\ Saved("unsupervised")
    /\ OutcomeOf("unsupervised").k = 2
    /\ DistinctFeatureRows = 1
    /\ Len(clusteredCsv.rows) = 2
    /\ clusteredCsv.rows[1].cluster = 1
    /\ clusteredCsv.rows[2].cluster = 1

\* ------------------------------------------------- claims on the evaluation

\* The sum of f over the finite set S.
RECURSIVE SumOver(_, _)
SumOver(f, S) ==
    IF S = {} THEN 0
    ELSE LET x == CHOOSE y \in S : TRUE IN f[x] + SumOver(f, S \ {x})

\* The sum of a line of the printed mood x cluster table, and of all its cells.
RowSum(m) == SumOver(report.table[m], DOMAIN report.table[m])
GrandTotal == SumOver([m \in DOMAIN report.table |-> RowSum(m)], DOMAIN report.table)

\* The rows of clustered_tracks.csv with mood m, and those with an empty mood.
RowsWithMood(m) == {i \in 1..Len(clusteredCsv.rows) : clusteredCsv.rows[i].mood = m}
TablePrinted == report.unsupervised = "table"

\* Each mood's line sums to the number of rows with that mood (a mood with no
\* row has no line).
LinesConserveMoods ==
    \A m \in Moods :
        IF RowsWithMood(m) = {} THEN m \notin DOMAIN report.table
        ELSE m \in DOMAIN report.table /\ RowSum(m) = Cardinality(RowsWithMood(m))

\* C11, as stated: the mood x cluster table evaluate_unsupervised builds, for
\* a cluster table with or without rows of empty mood, sums to the number of
\* input rows with a cluster id, and each mood's line sums to that mood's row
\* count.
C11_TableTotalIsRowCount ==
    TablePrinted =>
        /\ GrandTotal =
              Cardinality({i \in 1..Len(clusteredCsv.rows) :
                              "cluster" \in DOMAIN clusteredCsv.rows[i]})
        /\ LinesConserveMoods

\* C11, amended: the table sums to the number of input rows that have a mood
\* (and a cluster id): a row whose mood is empty is in no cell, so the total
\* falls short of the row count by the number of such rows; the lines are the
\* moods that occur, each summing to its mood's row count, and a cell is the
\* number of rows with its mood and cluster id, 0 when there is none.
C11_TableCountsLabelledRows ==
    TablePrinted =>
        LET rows == clusteredCsv.rows
        IN  /\ GrandTotal = Len(rows) - Cardinality(RowsWithMood(NaN))
            /\ LinesConserveMoods
            /\ DOMAIN report.table \subseteq Moods
            /\ \A m \in DOMAIN report.table :
                  \A c \in DOMAIN report.table[m] :
                      report.table[m][c] =
                          Cardinality({i \in RowsWithMood(m) : rows[i].cluster = c})

C11_Witness ==
    /\ TablePrinted
    /\ Len(clusteredCsv.rows) = 3
    /\ RowsWithMood(NaN) # {}
    /\ GrandTotal = 2
    /\ DOMAIN report.table = Moods

\* ------------------------------------------------ claims on stage failures

\* The outcomes that are stage-level failures, and the files of the pipeline.
StageFailures == {"missing input", "missing label column"}
Checkpoints ==
    <<youtubeCsv, featuresCsv, labelsCsv, transformedCsv, predictedCsv, clusteredCsv>>
StageFailed == \E n \in 1..Len(outcomes) : outcomes[n].outcome \in StageFailures

\* The step is a stage ending in a stage-level failure.
FailsNow ==
    /\ Len(outcomes') = Len(outcomes) + 1
    /\ outcomes'[Len(outcomes')].outcome \in StageFailures

\* Such a step reports the failure under the stage's name, writes no file,
\* and hands over to the next step of main().
C12_FailureStep ==
    FailsNow =>
        /\ outcomes'[Len(outcomes')].stage = stage
        /\ Checkpoints' = Checkpoints
        /\ stage' = StageAfter(stage)

\* The stages that have run are the first steps of main(), in order, and the
\* one that runs next is the step after them (unless main() has died).
C12_FixedOrder ==
    /\ Len(outcomes) <= Len(MainOrder)
    /\ \A n \in 1..Len(outcomes) : outcomes[n].stage = MainOrder[n]
    /\ stage # "crashed" =>
          stage = (IF outcomes = <<>> THEN MainOrder[1] ELSE StageAfter(MainOrder[Len(outcomes)]))

KMeansFits == {n \in 1..Len(fits) : fits[n].model = "kmeans"}

\* The fit used the numeric columns of the transformed table only, on its
\* rows as read: mood is no column of what was fitted or labelled.
FittedOnFeaturesOnly(fit) ==
    /\ fit.cols = select_dtypes_number(transformedCsv)
    /\ "mood" \notin fit.cols
    /\ Len(fit.on) = Len(transformedCsv.rows)
    /\ \A i \in 1..Len(fit.on) :
          /\ "mood" \notin DOMAIN fit.on[i]
          /\ DOMAIN fit.on[i] = DOMAIN transformedCsv.rows[i] \cup {"cluster"}
          /\ Extends(fit.on[i], transformedCsv.rows[i])

\* C13: run_kmeans_clustering fits and assigns cluster ids on the numeric
\* columns of the transformed feature table only, before the label table is
\* joined, so two runs on the same feature table (and the same k) whose label
\* tables differ give every feature row the same cluster id, and the ids
\* written are those ids.
C13_ClusterIdsIgnoreLabels ==
    /\ \A n \in KMeansFits : FittedOnFeaturesOnly(fits[n])
    /\ \A m, n \in KMeansFits :
          fits[m].k = fits[n].k =>
              \A i \in 1..Len(transformedCsv.rows) :
                  fits[m].on[i].cluster = fits[n].on[i].cluster
    /\ (/\ stage = "evaluate"
        /\ outcomes[Len(outcomes)].stage = "unsupervised"
        /\ outcomes[Len(outcomes)].outcome = "saved") =>
          LET last == fits[CHOOSE n \in KMeansFits : \A m \in KMeansFits : m <= n]
          IN  /\ last.labels = labelsCsv
              /\ \A r \in 1..Len(clusteredCsv.rows) :
                    \E i \in 1..Len(last.on) : Extends(clusteredCsv.rows[r], last.on[i])
              /\ \A i \in 1..Len(last.on) :
                    \E r \in 1..Len(clusteredCsv.rows) : Extends(clusteredCsv.rows[r], last.on[i])

C13_Witness ==
    /\ Len(fits) = 2
    /\ KMeansFits = {1, 2}
    /\ fits[1].labels # fits[2].labels
    /\ fits[1].k = 2
    /\ Len(fits[1].labels.rows) = 1
    /\ Len(transformedCsv.rows) = 2
    /\ fits[1].on[1].cluster # fits[1].on[2].cluster
    /\ fits[2].on[1].cluster = fits[1].on[1].cluster
    /\ Len(clusteredCsv.rows) = 3

\* --------------------------------------------------- claims on the registry

\* Track identity f is recorded as cached in the table: a row of f has
\* downloaded = True; and recorded as not cached: f has rows and none is true.
CachedIn(rows, f) == \E i \in 1..Len(rows) : rows[i].file_name = f /\ rows[i].downloaded
NotCachedIn(rows, f) ==
    /\ \E i \in 1..Len(rows) : rows[i].file_name = f
    /\ ~CachedIn(rows, f)

\* The identities of the playlist's tracks.
Identities ==
    {get_tracks_from_user_library(library)[i].file_name : i \in 1..Len(library)}

\* No step turns a true 'downloaded' value of an identity whose asset exists
\* into a false one, in the in-memory table ...
C14_MemoryKeepsTrue ==
    \A f \in Identities :
        (CachedIn(df, f) /\ file_path(f) \in assets) => ~NotCachedIn(df', f)

\* ... or in the persisted checkpoint youtube_tracks.csv.
C14_CheckpointKeepsTrue ==
    \A f \in Identities :
        (youtubeCsv.exists /\ CachedIn(youtubeCsv.rows, f) /\ file_path(f) \in assets) =>
            ~(youtubeCsv'.exists /\ NotCachedIn(youtubeCsv'.rows, f))

\* C14, as stated: once the 'downloaded' value of a track identity is true, in
\* the in-memory table or in the persisted checkpoint (a value carried over
\* from an earlier run included, the asset still existing), no later step of
\* an acquisition run sets it back to false.
C14_DownloadedIsMonotonic ==
    [][/\ (pc = "downloading" /\ pc' # "idle") => C14_MemoryKeepsTrue
       /\ C14_CheckpointKeepsTrue]_vars

\* C15, as stated: in the track table get_tracks_from_user_library produces,
\* two rows that differ in (name, artists) never share a file_name, so no two
\* distinct tracks have the same asset path.
C15_FileNameIsUnique ==
    LET t == get_tracks_from_user_library(library)
    IN  \A i, j \in 1..Len(t) :
            (t[i].name # t[j].name \/ t[i].artists # t[j].artists) =>
                /\ t[i].file_name # t[j].file_name
                /\ file_path(t[i].file_name) # file_path(t[j].file_name)

====
